---------------------------- MODULE Spec2Model ----------------------------
(***************************************************************************)
(* Model of the personal-finance projection code:                          *)
(*   src/src/interest.py         calculate_ammortization_schedule          *)
(*   src/src/housing.py          MortgageStrategy, PresellingStrategy,     *)
(*                               RentStrategy, BudgetCalculator            *)
(*                               (calculate_net_worth_series)              *)
(*   src/src/investment.py       calculate_monthly_return                  *)
(*   src/src/BudgetCalculator.py BudgetCalculator                          *)
(*                               (calculate_financial_projection)          *)
(*                                                                         *)
(* Numbers.  Money is counted in thousandths of the currency unit (the     *)
(* precision round(x, 3) keeps), as an integer.  A rate is an exact        *)
(* fraction [n, d]; a product of an amount and a rate is rounded down to   *)
(* the thousandth.  Inside calculate_ammortization_schedule the Python     *)
(* floats are exact fractions and round(x, 3) is modelled exactly.         *)
(***************************************************************************)
EXTENDS Integers, Sequences, FiniteSets, TLC

VARIABLES
    calc,         \* which calculator runs: "projection" (BudgetCalculator.py),
                  \* "series" (housing.py), or "schedule" (interest.py alone)
    args,         \* the arguments of the running call
    self,         \* the BudgetCalculator's fields
    housing,      \* the housing strategy instance's fields
    savings,      \* local of the loop
    investments,  \* local of the loop
    month,        \* the loop variable: the last month entered (0 before the loop)
    records,      \* the rows appended so far, in order
    pc,           \* "loop", "returned" or "raised"
    error,        \* the exception that ended the call, "none" otherwise
    escalations,  \* history: how many times the annual branch was taken
    result        \* the value calculate_ammortization_schedule returned

vars == <<calc, args, self, housing, savings, investments, month, records,
          pc, error, escalations, result>>

----------------------------------------------------------------------------
(* Bounds of the model *)

\* longest run, in months
MaxMonths == 66
\* longest loan term of a housing strategy, in months
MaxTerm == 2
\* longest loan term handed to the schedule builder alone, in months
MaxSchedTerm == 4
\* largest principal handed to the schedule builder alone, in currency units
MaxPrincipal == 12

----------------------------------------------------------------------------
(* Exact fractions *)

Abs(x) == IF x < 0 THEN -x ELSE x

RECURSIVE GCD(_, _)
GCD(a, b) == IF b = 0 THEN a ELSE GCD(b, a % b)

\* the fraction n/d in lowest terms, d > 0
Q(n, d) ==
    LET g == GCD(Abs(n), Abs(d))
        s == IF d < 0 THEN -1 ELSE 1
    IN  [n |-> s * (n \div g), d |-> s * (d \div g)]

QAdd(a, b) ==
    LET g == GCD(a.d, b.d)
    IN  Q(a.n * (b.d \div g) + b.n * (a.d \div g), (a.d \div g) * b.d)
QSub(a, b) == QAdd(a, [n |-> -b.n, d |-> b.d])
QMul(a, b) ==
    LET g1 == GCD(Abs(a.n), b.d)
        g2 == GCD(Abs(b.n), a.d)
    IN  Q((a.n \div g1) * (b.n \div g2), (a.d \div g2) * (b.d \div g1))
QDiv(a, b) == QMul(a, Q(b.d, b.n))

RECURSIVE QPow(_, _)
QPow(a, k) == IF k = 0 THEN Q(1, 1) ELSE QMul(a, QPow(a, k - 1))

\* n/d rounded to the nearest integer, ties to even (Python's round)
RoundHalfEven(n, d) ==
    LET f == n \div d
        r2 == 2 * (n - f * d)
    IN  IF r2 < d THEN f
        ELSE IF r2 > d THEN f + 1
        ELSE IF f % 2 = 0 THEN f ELSE f + 1

\* round(x, 3), as a count of thousandths
Round3(x) ==
    LET m == QMul(x, Q(1000, 1))
    IN  RoundHalfEven(m.n, m.d)

\* amount * rate, for an amount in thousandths
Times(x, rate) == (x * rate.n) \div rate.d

----------------------------------------------------------------------------
(* interest.py: calculate_ammortization_schedule *)

\* line 7
monthly_rate(annual_rate) == QDiv(annual_rate, Q(12, 1))

\* line 8; years is a fraction, the value is a whole number of months for
\* every years = term / 12
total_payments(years) == QMul(years, Q(12, 1))

\* lines 9-11: the denominator 1 - (1 + monthly_rate) ** -total_payments
payment_denominator(annual_rate, years) ==
    LET tp == total_payments(years)
        k  == tp.n \div tp.d
        growth == QAdd(Q(1, 1), monthly_rate(annual_rate))
    IN  IF k >= 0
        THEN QSub(Q(1, 1), QDiv(Q(1, 1), QPow(growth, k)))
        ELSE QSub(Q(1, 1), QPow(growth, -k))

\* lines 9-11: a float division by 0.0 raises ZeroDivisionError
schedule_raises(principal, annual_rate, years) ==
    payment_denominator(annual_rate, years).n = 0

\* lines 9-11 (only where the division is defined)
monthly_payment(principal, annual_rate, years) ==
    QDiv(QMul(principal, monthly_rate(annual_rate)),
         payment_denominator(annual_rate, years))

\* lines 17-31: rows i..last, from the balance before row i
RECURSIVE schedule_rows(_, _, _, _, _)
schedule_rows(i, last, balance, payment, rate) ==
    IF i > last THEN <<>>
    ELSE LET interest == QMul(balance, rate)
             principal_payment == QSub(payment, interest)
             new_balance == QSub(balance, principal_payment)
         IN  <<[month |-> i,
                monthly_payment |-> Round3(payment),
                interest |-> Round3(interest),
                principal |-> Round3(principal_payment),
                remaining_balance |-> Round3(new_balance)]>>
             \o schedule_rows(i + 1, last, new_balance, payment, rate)

\* lines 6-41: the DataFrame's rows; int(total_payments) truncates
calculate_ammortization_schedule(principal, annual_rate, years) ==
    LET tp == total_payments(years)
    IN  schedule_rows(1, tp.n \div tp.d, principal,
                      monthly_payment(principal, annual_rate, years),
                      monthly_rate(annual_rate))

----------------------------------------------------------------------------
(* housing.py: the housing strategies *)

\* PresellingStrategy.set_ammortization, line 124
Tier1Installment == 52513870
\* PresellingStrategy.set_ammortization, line 126
Tier2Installment == 73519420
\* PresellingStrategy.set_ammortization, line 128
Tier3Installment == 168044390

\* isinstance(housing, (MortgageStrategy, PresellingStrategy))
is_owned(h) == h.kind \in {"Mortgage", "Preselling"}

\* isinstance(housing, RentStrategy)
is_rented(h) == h.kind = "Rent"

\* the methods each class defines; calling any other raises AttributeError
class_methods(kind) ==
    IF kind = "Rent"
    THEN {"calculate_housing_cost", "increase_rent"}
    ELSE {"calculate_housing_cost", "calculate_yearly_cost",
          "create_ammortization_schedule", "set_ammortization",
          "increase_house_value"}

\* MortgageStrategy.__init__: the instance after construction
MortgageStrategy(house_value, down_payment, loan_term_months, loan_interest_rate, property_tax, maintenance_cost) ==
    [kind |-> "Mortgage",
     house_value |-> house_value,
     down_payment |-> down_payment,
     loan_term_months |-> loan_term_months,
     loan_interest_rate |-> loan_interest_rate,
     property_tax |-> property_tax,
     maintenance_cost |-> maintenance_cost,
     month |-> 0,
     defined |-> {},
     ammortization |-> 0,
     principal |-> 0,
     ammortization_schedule |-> <<>>]

\* PresellingStrategy.__init__: the instance after construction
PresellingStrategy(house_value, preselling_down_payment, lump_sum, loan_down_payment, loan_term_months, loan_interest_rate, property_tax, maintenance_cost) ==
    [kind |-> "Preselling",
     house_value |-> house_value,
     preselling_down_payment |-> preselling_down_payment,
     lump_sum |-> lump_sum,
     loan_down_payment |-> loan_down_payment,
     loan_term_months |-> loan_term_months,
     loan_interest_rate |-> loan_interest_rate,
     property_tax |-> property_tax,
     maintenance_cost |-> maintenance_cost,
     month |-> 0,
     defined |-> {},
     ammortization |-> 0,
     principal |-> 0,
     ammortization_schedule |-> <<>>]

\* RentStrategy.__init__
RentStrategy(rent) == [kind |-> "Rent", rent |-> rent]

\* create_ammortization_schedule: [h, error]; the attribute is bound only
\* when the builder returns
create_ammortization_schedule(h) ==
    LET principal == Q(h.principal, 1000)
        years == Q(h.loan_term_months, 12)
    IN  IF schedule_raises(principal, h.loan_interest_rate, years)
        THEN [h |-> h, error |-> "ZeroDivisionError"]
        ELSE [h |-> [h EXCEPT
                       !.ammortization_schedule =
                           calculate_ammortization_schedule(
                               principal, h.loan_interest_rate, years),
                       !.defined = @ \cup {"ammortization_schedule"}],
              error |-> "none"]

\* ammortization_schedule.monthly_payment[0]: [h, error]
first_monthly_payment(h) ==
    IF "ammortization_schedule" \notin h.defined
       \/ h.ammortization_schedule = <<>>
    THEN [h |-> h, error |-> "AttributeError"]
    ELSE [h |-> [h EXCEPT
                   !.ammortization = h.ammortization_schedule[1].monthly_payment,
                   !.defined = @ \cup {"ammortization"}],
          error |-> "none"]

\* self.month += 1, reached only when no branch raised
advance_month(r) ==
    IF r.error = "none"
    THEN [h |-> [r.h EXCEPT !.month = @ + 1], error |-> "none"]
    ELSE r

\* Mortgage set_ammortization retiring the loan at month >= loan_term_months:
\* one payment short
Mortgage_set_ammortization_retires_early(h) ==
    advance_month(
        IF h.month >= h.loan_term_months /\ h.month > 0
        THEN [h |-> [h EXCEPT !.ammortization = 0,
                              !.defined = @ \cup {"ammortization"}],
              error |-> "none"]
        ELSE IF h.month = 0
        THEN create_ammortization_schedule(
                 [h EXCEPT !.ammortization = h.down_payment,
                           !.principal = h.house_value - h.down_payment,
                           !.defined = @ \cup {"ammortization", "principal"}])
        ELSE first_monthly_payment(h))

\* MortgageStrategy.set_ammortization: [h, error]
Mortgage_set_ammortization(h) ==
    advance_month(
        IF h.month > h.loan_term_months
        THEN [h |-> [h EXCEPT !.ammortization = 0,
                              !.defined = @ \cup {"ammortization"}],
              error |-> "none"]
        ELSE IF h.month = 0
        THEN create_ammortization_schedule(
                 [h EXCEPT !.ammortization = h.down_payment,
                           !.principal = h.house_value - h.down_payment,
                           !.defined = @ \cup {"ammortization", "principal"}])
        ELSE IF h.month > 0
        THEN first_monthly_payment(h)
        ELSE [h |-> h, error |-> "none"])

\* Preselling set_ammortization with the tier tests < 24, < 48, < 60: each
\* tier ends a month early
Preselling_set_ammortization_early_tiers(h) ==
    LET set(v) == [h |-> [h EXCEPT !.ammortization = v,
                                   !.defined = @ \cup {"ammortization"}],
                   error |-> "none"]
    IN  advance_month(
        IF h.month > 60 + h.loan_term_months + 1 THEN set(0)
        ELSE IF h.month = 0 THEN set(h.preselling_down_payment)
        ELSE IF h.month < 24 THEN set(Tier1Installment)
        ELSE IF h.month < 48 THEN set(Tier2Installment)
        ELSE IF h.month < 60 THEN set(Tier3Installment)
        ELSE IF h.month < 61 THEN set(h.loan_down_payment)
        ELSE IF h.month = 61
        THEN create_ammortization_schedule(
                 [h EXCEPT !.ammortization = h.loan_down_payment,
                           !.principal = h.lump_sum,
                           !.defined = @ \cup {"ammortization", "principal"}])
        ELSE first_monthly_payment(h))

\* Preselling set_ammortization retiring the loan at month > 60 + term + 2:
\* one payment more
Preselling_set_ammortization_pays_on(h) ==
    LET set(v) == [h |-> [h EXCEPT !.ammortization = v,
                                   !.defined = @ \cup {"ammortization"}],
                   error |-> "none"]
    IN  advance_month(
        IF h.month > 60 + h.loan_term_months + 2 THEN set(0)
        ELSE IF h.month = 0 THEN set(h.preselling_down_payment)
        ELSE IF h.month <= 24 THEN set(Tier1Installment)
        ELSE IF h.month <= 48 THEN set(Tier2Installment)
        ELSE IF h.month <= 60 THEN set(Tier3Installment)
        ELSE IF h.month = 61
        THEN create_ammortization_schedule(
                 [h EXCEPT !.ammortization = h.loan_down_payment,
                           !.principal = h.lump_sum,
                           !.defined = @ \cup {"ammortization", "principal"}])
        ELSE first_monthly_payment(h))

\* PresellingStrategy.set_ammortization: [h, error]
Preselling_set_ammortization(h) ==
    LET set(v) == [h |-> [h EXCEPT !.ammortization = v,
                                   !.defined = @ \cup {"ammortization"}],
                   error |-> "none"]
    IN  advance_month(
        IF h.month > 60 + h.loan_term_months + 1 THEN set(0)
        ELSE IF h.month = 0 THEN set(h.preselling_down_payment)
        ELSE IF h.month <= 24 THEN set(Tier1Installment)
        ELSE IF h.month <= 48 THEN set(Tier2Installment)
        ELSE IF h.month <= 60 THEN set(Tier3Installment)
        ELSE IF h.month = 61
        THEN create_ammortization_schedule(
                 [h EXCEPT !.ammortization = h.loan_down_payment,
                           !.principal = h.lump_sum,
                           !.defined = @ \cup {"ammortization", "principal"}])
        ELSE IF h.month > 61
        THEN first_monthly_payment(h)
        ELSE [h |-> h, error |-> "none"])

\* housing.set_ammortization(), dispatched on the instance's class
set_ammortization(h) ==
    IF h.kind = "Mortgage" THEN Mortgage_set_ammortization(h)
    ELSE Preselling_set_ammortization(h)

\* calculate_housing_cost of the three classes
calculate_housing_cost(h) ==
    IF h.kind = "Rent" THEN h.rent
    ELSE h.ammortization + h.property_tax + h.maintenance_cost

\* calculate_yearly_cost of the owned classes
calculate_yearly_cost(h) == h.property_tax + h.maintenance_cost

\* increase_house_value of the owned classes
increase_house_value(h, percentage) ==
    [h EXCEPT !.house_value = @ + Times(@, percentage)]

\* RentStrategy.increase_rent
increase_rent(h, percentage) ==
    [h EXCEPT !.rent = @ + Times(@, percentage)]

----------------------------------------------------------------------------
(* investment.py: the investment strategies *)

\* calculate_monthly_return of both strategies; the strategy is its
\* monthly_return_rate, fixed by __post_init__
calculate_monthly_return(strategy, current_investment) ==
    Times(current_investment, strategy.monthly_return_rate)

\* RiskAdjustedStrategy.__post_init__, line 50
risk_multipliers ==
    [conservative |-> Q(7, 10), moderate |-> Q(1, 1), aggressive |-> Q(13, 10)]

\* line 51: the dict lookup raises KeyError for any other tag
risk_level_raises(risk_level) == risk_level \notin DOMAIN risk_multipliers

\* x ** 12, a year of monthly growth
twelfth_power(x) == QPow(QPow(x, 3), 4)

\* the monthly growth factors 1 + monthly_return_rate the model tells apart
MonthlyGrowths == {Q(j, 2) : j \in 2..5}

\* lines 33 and 52: (1 + rate) ** (1 / 12) - 1, for a rate >= 0.  The value
\* is the greatest growth factor of MonthlyGrowths whose twelfth power is at
\* most 1 + rate, less 1: the exact root wherever 1 + rate is the twelfth
\* power of one of them, as it is for every strategy the model constructs.
monthly_conversion(annual_rate) ==
    LET x == QAdd(Q(1, 1), annual_rate)
        fits == {g \in MonthlyGrowths : QSub(x, twelfth_power(g)).n >= 0}
        top == CHOOSE g \in fits : \A h \in fits : QSub(g, h).n >= 0
    IN  QSub(top, Q(1, 1))

\* RiskAdjustedStrategy without the multiplier: the base rate is converted
RiskAdjustedStrategy_unscaled(base_return_rate, risk_level) ==
    [kind |-> "RiskAdjusted",
     base_return_rate |-> base_return_rate,
     risk_level |-> risk_level,
     monthly_return_rate |-> monthly_conversion(base_return_rate)]

\* lines 42-52: the dataclass fields, then __post_init__ (for a tag of
\* risk_multipliers)
RiskAdjustedStrategy(base_return_rate, risk_level) ==
    [kind |-> "RiskAdjusted",
     base_return_rate |-> base_return_rate,
     risk_level |-> risk_level,
     monthly_return_rate |->
         monthly_conversion(QMul(base_return_rate, risk_multipliers[risk_level]))]

----------------------------------------------------------------------------
(* The two calculators' shared methods *)

\* BudgetCalculator.calculate_total_income
calculate_total_income(s) == s.salary + s.other_income

\* BudgetCalculator.calculate_budget
calculate_budget(s, h) ==
    LET total_income == calculate_total_income(s)
        housing_cost == calculate_housing_cost(h)
        total_expenses == housing_cost + s.daily_living_expense + s.other_expenses
    IN  total_income - total_expenses

\* BudgetCalculator.increase_income
increase_income(s, pct) ==
    [s EXCEPT !.salary = @ + Times(@, pct),
              !.other_income = @ + Times(@, pct)]

\* BudgetCalculator.increase_expense
increase_expense(s, pct) ==
    [s EXCEPT !.daily_living_expense = @ + Times(@, pct),
              !.other_expenses = @ + Times(@, pct)]

\* is_annual testing month % 12 == 0: the branch a month early
is_annual_every_twelfth(m) == m % 12 = 0 /\ m > 1

\* the loops' annual test: month % 12 == 1 and month > 1
is_annual(m) == m % 12 = 1 /\ m > 1

\* the house value a row records
recorded_house_value(h) == IF is_owned(h) THEN h.house_value ELSE 0

\* net_worth with the liabilities added instead of subtracted
net_worth_adds_liabilities(sav, inv, liabilities, house_value) ==
    sav + inv + liabilities + house_value

\* the net worth a row records
net_worth(sav, inv, liabilities, house_value) ==
    sav + inv - liabilities + house_value

----------------------------------------------------------------------------
(* BudgetCalculator.py: one iteration of calculate_financial_projection *)

\* projection_annual with the rent escalated like a house value, by
\* house_value_increase
projection_annual_rent_as_house_value(s, h, a, m) ==
    IF is_annual(m)
    THEN [self |-> increase_expense(increase_income(s, a.income_increase),
                                    a.expense_increase),
          housing |-> IF is_owned(h)
                      THEN increase_house_value(h, a.house_value_increase)
                      ELSE IF is_rented(h)
                      THEN increase_rent(h, a.house_value_increase)
                      ELSE h]
    ELSE [self |-> s, housing |-> h]

\* lines 103-111: the calculator and the strategy after the annual branch
projection_annual(s, h, a, m) ==
    IF is_annual(m)
    THEN [self |-> increase_expense(increase_income(s, a.income_increase),
                                    a.expense_increase),
          housing |-> IF is_owned(h)
                      THEN increase_house_value(h, a.house_value_increase)
                      ELSE IF is_rented(h)
                      THEN increase_rent(h, a.expense_increase)
                      ELSE h]
    ELSE [self |-> s, housing |-> h]

\* lines 114-116: set_ammortization, then set_yearly_cost, which no class
\* of housing.py defines
projection_update_housing(h) ==
    LET set_yearly_cost(r) ==
            IF r.error # "none" THEN r
            ELSE IF "set_yearly_cost" \notin class_methods(h.kind)
            THEN [h |-> r.h, error |-> "AttributeError"]
            ELSE r
    IN  IF ~is_owned(h) THEN [h |-> h, error |-> "none"]
        ELSE set_yearly_cost(set_ammortization(h))

\* projection_allocate without the branch on the budget's sign: a deficit is
\* split between savings and investments like a surplus
projection_allocate_splits_deficit(s, sav, inv, budget) ==
    LET allocate(investment_return) ==
            [savings |-> sav + Times(budget, s.savings_rate),
             investments |-> (inv + investment_return)
                             + Times(budget, s.investments_rate),
             investment_return |-> investment_return]
    IN  allocate(calculate_monthly_return(s.investment_strategy, inv))

\* projection_allocate with the return computed after the allocation, on
\* the balance that already holds the month's share of the budget
projection_allocate_return_after(s, sav, inv, budget) ==
    LET allocate(investment_return) ==
            IF budget >= 0
            THEN [savings |-> sav + Times(budget, s.savings_rate),
                  investments |-> (inv + Times(budget, s.investments_rate))
                                  + investment_return,
                  investment_return |-> investment_return]
            ELSE [savings |-> sav,
                  investments |-> (inv + budget) + investment_return,
                  investment_return |-> investment_return]
    IN  allocate(calculate_monthly_return(
                     s.investment_strategy,
                     IF budget >= 0 THEN inv + Times(budget, s.investments_rate)
                     ELSE inv + budget))

\* lines 119-135: the allocation of one month's budget
projection_allocate(s, sav, inv, budget) ==
    LET allocate(investment_return) ==
            IF budget >= 0
            THEN [savings |-> sav + Times(budget, s.savings_rate),
                  investments |-> (inv + investment_return)
                                  + Times(budget, s.investments_rate),
                  investment_return |-> investment_return]
            ELSE [savings |-> sav,
                  investments |-> (inv + investment_return) + budget,
                  investment_return |-> investment_return]
    IN  allocate(calculate_monthly_return(s.investment_strategy, inv))

\* lines 137-148: the row appended for the month
projection_row(a, h, budget, alloc, house_value) ==
    [net_worth |-> net_worth(alloc.savings, alloc.investments, a.liabilities,
                             house_value),
     house_value |-> house_value,
     housing_cost |-> calculate_housing_cost(h),
     cashflow |-> budget,
     investments |-> alloc.investments,
     investment_returns |-> alloc.investment_return,
     savings |-> alloc.savings,
     liabilities |-> a.liabilities]

\* lines 137-148, from the allocation
projection_record(s, h, a, budget, alloc) ==
    [error |-> "none", self |-> s, housing |-> h,
     savings |-> alloc.savings, investments |-> alloc.investments,
     row |-> <<projection_row(a, h, budget, alloc, recorded_house_value(h))>>]

\* lines 119-135, from the budget
projection_budgeted(s, h, a, sav, inv, budget) ==
    projection_record(s, h, a, budget, projection_allocate(s, sav, inv, budget))

\* lines 114-148, from the outcome upd of the housing update
projection_updated(s, upd, a, sav, inv) ==
    IF upd.error # "none"
    THEN [error |-> upd.error, self |-> s, housing |-> upd.h,
          savings |-> sav, investments |-> inv, row |-> <<>>]
    ELSE projection_budgeted(s, upd.h, a, sav, inv, calculate_budget(s, upd.h))

\* lines 113-148, from the outcome annual of the annual branch
projection_escalated(annual, a, sav, inv) ==
    projection_updated(annual.self, projection_update_housing(annual.housing),
                       a, sav, inv)

\* lines 101-148: month m from the state (s, h, sav, inv)
projection_month(s, h, a, sav, inv, m) ==
    projection_escalated(projection_annual(s, h, a, m), a, sav, inv)

----------------------------------------------------------------------------
(* housing.py: one iteration of BudgetCalculator.calculate_net_worth_series *)

\* lines 217-232: the calculator, the strategy and investments after the
\* annual branch
series_annual(s, h, a, inv, m) ==
    IF is_annual(m)
    THEN [self |-> [s EXCEPT
                      !.salary = @ + Times(@, a.income_increase),
                      !.other_income = @ + Times(@, a.income_increase),
                      !.daily_living_expense = @ + Times(@, a.expense_increase),
                      !.other_expenses = @ + Times(@, a.expense_increase)],
          housing |-> IF is_owned(h)
                      THEN increase_house_value(h, a.house_value_increase)
                      ELSE IF is_rented(h)
                      THEN increase_rent(h, a.expense_increase)
                      ELSE h,
          investments |-> inv + Times(inv, a.investment_increase)]
    ELSE [self |-> s, housing |-> h, investments |-> inv]

\* lines 234-237
series_update_housing(h) ==
    IF is_owned(h) THEN set_ammortization(h) ELSE [h |-> h, error |-> "none"]

\* lines 241-245
series_allocate(s, sav, inv, budget) ==
    LET sav1 == IF budget >= 0 THEN sav + Times(budget, s.savings_rate) ELSE sav
        inv1 == IF budget >= 0 THEN inv + Times(budget, s.investments_rate) ELSE inv
    IN  [savings |-> sav1,
         investments |-> IF budget < 0 THEN inv1 + budget ELSE inv1]

\* lines 247-262: the row appended for the month
series_row(a, h, budget, alloc, house_value) ==
    [net_worth |-> net_worth(alloc.savings, alloc.investments, a.liabilities,
                             house_value),
     house_value |-> house_value,
     housing_cost |-> calculate_housing_cost(h),
     cashflow |-> budget,
     investments |-> alloc.investments,
     savings |-> alloc.savings,
     liabilities |-> a.liabilities]

\* lines 247-262, from the allocation
series_record(s, h, a, budget, alloc) ==
    [error |-> "none", self |-> s, housing |-> h,
     savings |-> alloc.savings, investments |-> alloc.investments,
     row |-> <<series_row(a, h, budget, alloc, recorded_house_value(h))>>]

\* lines 239-245, from the budget
series_budgeted(s, h, a, sav, inv, budget) ==
    series_record(s, h, a, budget, series_allocate(s, sav, inv, budget))

\* lines 234-262, from the outcome upd of the housing update
series_updated(s, upd, a, sav, inv) ==
    IF upd.error # "none"
    THEN [error |-> upd.error, self |-> s, housing |-> upd.h,
          savings |-> sav, investments |-> inv, row |-> <<>>]
    ELSE series_budgeted(s, upd.h, a, sav, inv, calculate_budget(s, upd.h))

\* lines 234-262, from the outcome annual of the annual branch
series_escalated(annual, a, sav) ==
    series_updated(annual.self, series_update_housing(annual.housing),
                   a, sav, annual.investments)

\* lines 215-262: month m from the state (s, h, sav, inv)
series_month(s, h, a, sav, inv, m) ==
    series_escalated(series_annual(s, h, a, inv, m), a, sav)

\* the DataFrame both loops return: the rows under the index 1..last
data_frame(rows, last) == [index |-> [i \in 1..last |-> i], rows |-> rows]

----------------------------------------------------------------------------
(* The runs the model starts from *)

NoRate == Q(0, 1)

\* annual growth arguments: none, or four different rates
Growths ==
    {[income_increase |-> NoRate, expense_increase |-> NoRate,
      house_value_increase |-> NoRate, investment_increase |-> NoRate],
     [income_increase |-> Q(1, 20), expense_increase |-> Q(1, 25),
      house_value_increase |-> Q(1, 50), investment_increase |-> Q(1, 10)]}

\* savings_rate and investments_rate
Allocations ==
    {[savings_rate |-> Q(0, 1), investments_rate |-> Q(1, 1)],
     [savings_rate |-> Q(1, 4), investments_rate |-> Q(1, 2)]}

\* the investment strategy's monthly_return_rate
ReturnRates == {Q(0, 1), Q(1, 100)}

\* loan_interest_rate, a year: 0, or 600 % (a monthly rate of 1/2)
LoanRates == {Q(0, 1), Q(6, 1)}

Terms == 1..MaxTerm

\* property_tax and maintenance_cost
YearlyCosts ==
    {[property_tax |-> 0, maintenance_cost |-> 0],
     [property_tax |-> 3000000, maintenance_cost |-> 2000000]}

Rents == {5000000, 10000000, 20000000}

Strategies ==
    {MortgageStrategy(100000000, 40000000, t, r, y.property_tax, y.maintenance_cost) :
        t \in Terms, r \in LoanRates, y \in YearlyCosts}
    \cup
    {PresellingStrategy(100000000, 20000000, 60000000, 12000000, t, r,
                        y.property_tax, y.maintenance_cost) :
        t \in Terms, r \in LoanRates, y \in YearlyCosts}
    \cup
    {RentStrategy(rent) : rent \in Rents}

\* salary, other income and living costs.  The first household leaves the
\* 70 000 a month the preselling installments need, the second 10 000; with
\* these amounts every running total of a run stays a 32-bit integer.
PresellingHousehold ==
    [salary |-> 80000000, other_income |-> 10000000,
     daily_living_expenses |-> 15000000, other_expenses |-> 5000000]
Household ==
    [salary |-> 80000000, other_income |-> 10000000,
     daily_living_expenses |-> 65000000, other_expenses |-> 15000000]

\* BudgetCalculator.__init__ of either file
Calculator(household, allocation, strategy) ==
    [salary |-> household.salary,
     other_income |-> household.other_income,
     daily_living_expense |-> household.daily_living_expenses,
     other_expenses |-> household.other_expenses,
     savings_rate |-> allocation.savings_rate,
     investments_rate |-> allocation.investments_rate,
     investment_strategy |-> strategy]

\* the values no run of the calculators gives to result
NoResult == [index |-> <<>>, rows |-> <<>>]

Init ==
    /\ calc \in {"projection", "series"}
    /\ housing \in Strategies
    /\ \E g \in Growths, months \in 1..MaxMonths :
          args = [months |-> months, liabilities |-> 5000000,
                  income_increase |-> g.income_increase,
                  expense_increase |-> g.expense_increase,
                  house_value_increase |-> g.house_value_increase,
                  investment_increase |-> g.investment_increase]
    /\ \E al \in Allocations, rr \in ReturnRates :
          /\ calc = "series" => rr = NoRate
          /\ self = Calculator(IF housing.kind = "Preselling"
                               THEN PresellingHousehold ELSE Household,
                               al, [monthly_return_rate |-> rr])
    /\ savings = 10000000
    /\ investments = 40000000
    /\ month = 0
    /\ records = <<>>
    /\ pc = "loop"
    /\ error = "none"
    /\ escalations = 0
    /\ result = NoResult

----------------------------------------------------------------------------
(* The steps *)

\* the iteration the running loop is about to make
next_month ==
    IF calc = "projection"
    THEN projection_month(self, housing, args, savings, investments, month + 1)
    ELSE series_month(self, housing, args, savings, investments, month + 1)

InLoop ==
    /\ pc \in {"loop", "again"}
    /\ calc \in {"projection", "series"}
    /\ month < args.months

\* one iteration of either loop that reaches its appends
MonthStep ==
    /\ InLoop
    /\ \E r \in {next_month} :
          /\ r.error = "none"
          /\ self' = r.self
          /\ housing' = r.housing
          /\ savings' = r.savings
          /\ investments' = r.investments
          /\ records' = records \o r.row
    /\ month' = month + 1
    /\ escalations' = escalations + (IF is_annual(month + 1) THEN 1 ELSE 0)
    /\ UNCHANGED <<calc, args, pc, error, result>>

\* one iteration that raises: the exception leaves the call
MonthRaise ==
    /\ InLoop
    /\ \E r \in {next_month} :
          /\ r.error # "none"
          /\ self' = r.self
          /\ housing' = r.housing
          /\ savings' = r.savings
          /\ investments' = r.investments
          /\ error' = r.error
    /\ month' = month + 1
    /\ escalations' = escalations + (IF is_annual(month + 1) THEN 1 ELSE 0)
    /\ pc' = "raised"
    /\ UNCHANGED <<calc, args, records, result>>

\* the loop is over: the DataFrame is built and returned
Return ==
    /\ pc \in {"loop", "again"}
    /\ calc \in {"projection", "series"}
    /\ month = args.months
    /\ pc' = (IF pc = "loop" THEN "returned" ELSE "returned again")
    /\ result' = data_frame(records, args.months)
    /\ UNCHANGED <<calc, args, self, housing, savings, investments, month,
                   records, error, escalations>>

Next == MonthStep \/ MonthRaise \/ Return

Spec == Init /\ [][Next]_vars

----------------------------------------------------------------------------
(* interest.py alone: calculate_ammortization_schedule on drawn inputs *)

\* annual_rate: 0, 600 % and 120 % (monthly rates of 0, 1/2 and 1/10)
ScheduleRates == {Q(0, 1), Q(6, 1), Q(6, 5)}

ScheduleInit ==
    /\ calc = "schedule"
    /\ \E p \in 1..MaxPrincipal, r \in ScheduleRates, t \in 1..MaxSchedTerm :
          args = [principal |-> Q(p, 1), annual_rate |-> r, years |-> Q(t, 12)]
    /\ self = <<>>
    /\ housing = <<>>
    /\ savings = 0
    /\ investments = 0
    /\ month = 0
    /\ records = <<>>
    /\ pc = "loop"
    /\ error = "none"
    /\ escalations = 0
    /\ result = NoResult

\* pd.DataFrame(schedule): the rows under the default index 0..n-1
schedule_frame(rows) ==
    [index |-> [i \in 1..Len(rows) |-> i - 1], rows |-> rows]

\* the call returns its schedule
BuildSchedule ==
    /\ calc = "schedule"
    /\ pc = "loop"
    /\ ~schedule_raises(args.principal, args.annual_rate, args.years)
    /\ result' = schedule_frame(calculate_ammortization_schedule(
                     args.principal, args.annual_rate, args.years))
    /\ pc' = "returned"
    /\ UNCHANGED <<calc, args, self, housing, savings, investments, month,
                   records, error, escalations>>

\* the call raises at lines 9-11, before any row
BuildScheduleRaise ==
    /\ calc = "schedule"
    /\ pc = "loop"
    /\ schedule_raises(args.principal, args.annual_rate, args.years)
    /\ pc' = "raised"
    /\ error' = "ZeroDivisionError"
    /\ UNCHANGED <<calc, args, self, housing, savings, investments, month,
                   records, escalations, result>>

ScheduleNext == BuildSchedule \/ BuildScheduleRaise

SpecSchedule == ScheduleInit /\ [][ScheduleNext]_vars

----------------------------------------------------------------------------
(* investment.py alone: a RiskAdjustedStrategy is constructed and
   InvestmentSimulator.simulate_growth runs on it *)

\* the months simulate_growth is run for
MaxReturns == 2

RiskLevels == {"conservative", "moderate", "aggressive", "speculative", "Moderate"}

\* base rates a tag scales to 1.5 ** 12 - 1, 2 ** 12 - 1 or 0
BaseRates(risk_level) ==
    {QDiv(QSub(twelfth_power(g), Q(1, 1)), risk_multipliers[risk_level]) :
        g \in {Q(2, 2), Q(3, 2), Q(4, 2)}}

StrategyInit ==
    /\ calc = "strategy"
    /\ \E level \in RiskLevels :
          \E base \in BaseRates(IF risk_level_raises(level) THEN "moderate" ELSE level) :
              args = [base_return_rate |-> base, risk_level |-> level,
                      months |-> MaxReturns]
    /\ investments \in {1000000, 10000000, 40000000}
    /\ self = <<>>
    /\ housing = <<>>
    /\ savings = 0
    /\ month = 0
    /\ records = <<>>
    /\ pc = "construct"
    /\ error = "none"
    /\ escalations = 0
    /\ result = NoResult

\* RiskAdjustedStrategy(base_return_rate, risk_level) returns the strategy
Construct ==
    /\ calc = "strategy"
    /\ pc = "construct"
    /\ ~risk_level_raises(args.risk_level)
    /\ self' = RiskAdjustedStrategy(args.base_return_rate, args.risk_level)
    /\ pc' = "constructed"
    /\ UNCHANGED <<calc, args, housing, savings, investments, month, records,
                   error, escalations, result>>

\* __post_init__ raises at line 51: no strategy is returned
ConstructRaise ==
    /\ calc = "strategy"
    /\ pc = "construct"
    /\ risk_level_raises(args.risk_level)
    /\ error' = "KeyError"
    /\ pc' = "raised"
    /\ UNCHANGED <<calc, args, self, housing, savings, investments, month,
                   records, escalations, result>>

\* simulate_growth, lines 78-89, with no monthly contribution: one month
SimulateMonth ==
    /\ calc = "strategy"
    /\ pc = "constructed"
    /\ month < args.months
    /\ \E monthly_return \in {calculate_monthly_return(self, investments)} :
          /\ investments' = investments + monthly_return
          /\ records' = Append(records, [total_value |-> investments + monthly_return,
                                         monthly_return |-> monthly_return])
    /\ month' = month + 1
    /\ UNCHANGED <<calc, args, self, housing, savings, pc, error, escalations,
                   result>>

StrategyNext == Construct \/ ConstructRaise \/ SimulateMonth

SpecStrategy == StrategyInit /\ [][StrategyNext]_vars

----------------------------------------------------------------------------
(* The same method called a second time, with the same arguments, on the
   calculator and the strategy the first call has returned from *)

\* the months of a call that is repeated
MaxRerunMonths == 13

RerunInit == Init /\ args.months <= MaxRerunMonths

\* the second call: its savings, investments and lists start anew, while
\* the calculator and the strategy are the objects the first call mutated
Rerun ==
    /\ pc = "returned"
    /\ calc \in {"projection", "series"}
    /\ pc' = "again"
    /\ savings' = 10000000
    /\ investments' = 40000000
    /\ month' = 0
    /\ records' = <<>>
    /\ escalations' = 0
    /\ UNCHANGED <<calc, args, self, housing, error, result>>

RerunNext == MonthStep \/ MonthRaise \/ Return \/ Rerun

SpecRerun == RerunInit /\ [][RerunNext]_vars

----------------------------------------------------------------------------
(* Inputs outside the documented domain: neither __init__ of housing.py nor
   calculate_ammortization_schedule checks its arguments, so these objects
   are built and these calls are made like any other *)

\* strategies with a term of 0 or -1 months, or an annual rate of -600 %
InvalidStrategies ==
    {MortgageStrategy(100000000, 40000000, t, r, y.property_tax, y.maintenance_cost) :
        t \in {-1, 0}, r \in LoanRates, y \in YearlyCosts}
    \cup
    {MortgageStrategy(100000000, 40000000, t, Q(-6, 1), y.property_tax, y.maintenance_cost) :
        t \in Terms, y \in YearlyCosts}
    \cup
    {PresellingStrategy(100000000, 20000000, 60000000, 12000000, t, r,
                        y.property_tax, y.maintenance_cost) :
        t \in {-1, 0}, r \in LoanRates, y \in YearlyCosts}
    \cup
    {PresellingStrategy(100000000, 20000000, 60000000, 12000000, t, Q(-6, 1),
                        y.property_tax, y.maintenance_cost) :
        t \in Terms, y \in YearlyCosts}

\* either loop entered with one of these strategies
InvalidRunInit ==
    /\ calc \in {"projection", "series"}
    /\ housing \in InvalidStrategies
    /\ \E g \in Growths, months \in 1..MaxMonths :
          args = [months |-> months, liabilities |-> 5000000,
                  income_increase |-> g.income_increase,
                  expense_increase |-> g.expense_increase,
                  house_value_increase |-> g.house_value_increase,
                  investment_increase |-> g.investment_increase]
    /\ \E al \in Allocations, rr \in ReturnRates :
          /\ calc = "series" => rr = NoRate
          /\ self = Calculator(IF housing.kind = "Preselling"
                               THEN PresellingHousehold ELSE Household,
                               al, [monthly_return_rate |-> rr])
    /\ savings = 10000000
    /\ investments = 40000000
    /\ month = 0
    /\ records = <<>>
    /\ pc = "loop"
    /\ error = "none"
    /\ escalations = 0
    /\ result = NoResult

\* the schedule builder called with a negative principal or a term <= 0
InvalidScheduleInit ==
    /\ calc = "schedule"
    /\ \E p \in -MaxPrincipal..MaxPrincipal, r \in ScheduleRates,
          t \in -MaxSchedTerm..MaxSchedTerm :
          /\ p # 0
          /\ ~(p > 0 /\ t > 0)
          /\ args = [principal |-> Q(p, 1), annual_rate |-> r, years |-> Q(t, 12)]
    /\ self = <<>>
    /\ housing = <<>>
    /\ savings = 0
    /\ investments = 0
    /\ month = 0
    /\ records = <<>>
    /\ pc = "loop"
    /\ error = "none"
    /\ escalations = 0
    /\ result = NoResult

InvalidInit == InvalidRunInit \/ InvalidScheduleInit

InvalidNext ==
    MonthStep \/ MonthRaise \/ Return \/ BuildSchedule \/ BuildScheduleRaise

SpecInvalid == InvalidInit /\ [][InvalidNext]_vars

----------------------------------------------------------------------------
(* The claims *)

InRun == calc \in {"projection", "series"}

LastRow == records[Len(records)]

\* set_ammortization was called on the strategy; a call the schedule builder
\* ended with ZeroDivisionError has not advanced the counter
Called == housing.month >= 1 \/ error = "ZeroDivisionError"

\* the month counter the strategy's last set_ammortization call saw
LastCounter ==
    IF error = "ZeroDivisionError" THEN housing.month ELSE housing.month - 1

\* the first payment of the schedule of the loan the strategy originated
SchedulePayment ==
    Round3(monthly_payment(Q(housing.principal, 1000),
                           housing.loan_interest_rate,
                           Q(housing.loan_term_months, 12)))

\* C1: for each housing variant and every months > 0,
\* calculate_financial_projection raises in no iteration and returns exactly
\* months rows, indexed 1..months in order, one appended per simulated month.
C1_ProjectionCompletes ==
    calc = "projection" =>
        /\ pc # "raised"
        /\ Len(records) = month
        /\ pc = "returned" =>
              /\ Len(result.rows) = args.months
              /\ result.rows = records
              /\ result.index = [i \in 1..args.months |-> i]

\* C2: in every row of a run, net_worth = savings + investments - liabilities
\* + house_value, each the value of that same row; the house value is 0 for
\* Rent and the strategy's house value for the owned variants.
C2_NetWorthIdentity ==
    InRun =>
        /\ \A i \in 1..Len(records) :
              /\ records[i].net_worth =
                     records[i].savings + records[i].investments
                     - records[i].liabilities + records[i].house_value
              /\ housing.kind = "Rent" => records[i].house_value = 0
        /\ (records # <<>> /\ housing.kind # "Rent") =>
              LastRow.house_value = housing.house_value

C2_Witness ==
    /\ calc = "series"
    /\ housing.kind = "Mortgage"
    /\ Len(records) = 13
    /\ records[13].house_value > records[1].house_value
    /\ records[13].liabilities > 0
    /\ records[13].savings > 0

\* C3: in a month of calculate_financial_projection whose budget is negative,
\* savings is left as it was and investments ends at its value before the
\* month, plus the return on that value, plus the budget.
C3_DeficitStep ==
    (/\ calc = "projection"
     /\ Len(records') = Len(records) + 1
     /\ records'[Len(records')].cashflow < 0)
    => /\ savings' = savings
       /\ investments' =
              (investments
               + (investments * self.investment_strategy.monthly_return_rate.n)
                 \div self.investment_strategy.monthly_return_rate.d)
              + records'[Len(records')].cashflow
       /\ records'[Len(records')].savings = savings
       /\ records'[Len(records')].investments = investments'

C3_DeficitFromInvestments == [][C3_DeficitStep]_vars

C3_Witness ==
    /\ calc = "projection"
    /\ Len(records) >= 2
    /\ LastRow.cashflow < 0
    /\ LastRow.investment_returns > 0
    /\ LastRow.savings = savings
    /\ self.savings_rate.n > 0

\* C4: in a run the annual escalation happens exactly on entering months
\* 13, 25, 37, ..., so floor((month - 1) / 12) times; in every other month
\* salary, other income, both expenses, house_value and rent are left alone;
\* and the row of a month is budgeted with that month's (escalated) values.
C4_EscalationCount ==
    (InRun /\ month >= 1) => escalations = (month - 1) \div 12

C4_RaisedBy(x, pct) == x + (x * pct.n) \div pct.d

C4_EscalationStep ==
    (InRun /\ month' = month + 1) =>
        /\ IF month' % 12 = 1 /\ month' > 1
           THEN /\ self'.salary = C4_RaisedBy(self.salary, args.income_increase)
                /\ self'.other_income =
                       C4_RaisedBy(self.other_income, args.income_increase)
                /\ self'.daily_living_expense =
                       C4_RaisedBy(self.daily_living_expense, args.expense_increase)
                /\ self'.other_expenses =
                       C4_RaisedBy(self.other_expenses, args.expense_increase)
                /\ IF housing.kind = "Rent"
                   THEN housing'.rent =
                            C4_RaisedBy(housing.rent, args.expense_increase)
                   ELSE housing'.house_value =
                            C4_RaisedBy(housing.house_value,
                                        args.house_value_increase)
                /\ escalations' = escalations + 1
           ELSE /\ self' = self
                /\ IF housing.kind = "Rent"
                   THEN housing'.rent = housing.rent
                   ELSE housing'.house_value = housing.house_value
                /\ escalations' = escalations
        /\ Len(records') = Len(records) + 1 =>
              records'[Len(records')].cashflow =
                  (self'.salary + self'.other_income)
                  - ((IF housing.kind = "Rent" THEN housing'.rent
                      ELSE housing'.ammortization + housing'.property_tax
                           + housing'.maintenance_cost)
                     + self'.daily_living_expense + self'.other_expenses)

C4_AnnualEscalation == [](C4_EscalationCount) /\ [][C4_EscalationStep]_vars

C4_Witness ==
    /\ InRun
    /\ month = 25
    /\ escalations = 2
    /\ args.income_increase.n > 0
    /\ housing.kind = "Mortgage"
    /\ housing.house_value > 100000000
    /\ self.daily_living_expense > 65000000
    /\ Len(records) = 25

\* C5 (as amended): for a Mortgage with term T > 0 the financing component
\* follows the month counter, one step per set_ammortization call: at counter 0
\* it is down_payment, at each counter 1..T the first payment of the schedule
\* (T payments in all), at every counter > T it is 0; the monthly cost is the
\* financing component plus property_tax plus maintenance_cost at every
\* counter; and the counter never goes back.
C5_MortgagePhases ==
    (InRun /\ housing.kind = "Mortgage" /\ Called) =>
        /\ LastCounter = 0 => housing.ammortization = housing.down_payment
        /\ (1 <= LastCounter /\ LastCounter <= housing.loan_term_months) =>
              /\ housing.ammortization = SchedulePayment
              /\ Len(housing.ammortization_schedule) = housing.loan_term_months
        /\ LastCounter > housing.loan_term_months => housing.ammortization = 0
        /\ (records # <<>> /\ pc # "raised") =>
              LastRow.housing_cost =
                  housing.ammortization + housing.property_tax
                  + housing.maintenance_cost

C5_CounterStep ==
    (InRun /\ housing.kind = "Mortgage") =>
        /\ housing'.month \in {housing.month, housing.month + 1}
        /\ (month' = month + 1 /\ pc' # "raised") =>
              housing'.month = housing.month + 1

C6_RateOf(amount) == Q(12 * (amount \div 1000000), 100)

\* C6: for a Mortgage, in every simulated month the cost beyond the financing
\* component is house_value * propertyTaxRate / 12
\* + house_value * maintenanceCostRate / 12 of the current house_value.
C6_YearlyCostFollowsHouseValue ==
    (InRun /\ housing.kind = "Mortgage" /\ records # <<>> /\ pc # "raised") =>
        LastRow.housing_cost - housing.ammortization =
            ((housing.house_value * C6_RateOf(housing.property_tax).n)
               \div C6_RateOf(housing.property_tax).d) \div 12
            + ((housing.house_value * C6_RateOf(housing.maintenance_cost).n)
               \div C6_RateOf(housing.maintenance_cost).d) \div 12

\* C7 (as amended): for a Preselling strategy the financing component of the
\* monthly cost is the tier-1, tier-2 and tier-3 installment at month counters
\* 1..24, 25..48 and 49..60 (the tiers change exactly at 24/25 and 48/49), the
\* loan down payment at counter 61, and the first payment of the amortization
\* schedule at counters 62..60+T+1; the monthly cost is the financing component
\* plus property_tax plus maintenance_cost.
C7_PresellingTiers ==
    (InRun /\ housing.kind = "Preselling" /\ Called) =>
        /\ LastCounter = 0 =>
              housing.ammortization = housing.preselling_down_payment
        /\ (1 <= LastCounter /\ LastCounter <= 24) =>
              housing.ammortization = 52513870
        /\ (25 <= LastCounter /\ LastCounter <= 48) =>
              housing.ammortization = 73519420
        /\ (49 <= LastCounter /\ LastCounter <= 60) =>
              housing.ammortization = 168044390
        /\ LastCounter = 61 =>
              housing.ammortization = housing.loan_down_payment
        /\ (62 <= LastCounter
            /\ LastCounter <= 60 + housing.loan_term_months + 1) =>
              /\ housing.ammortization = SchedulePayment
              /\ housing.principal = housing.lump_sum
        /\ (records # <<>> /\ pc # "raised") =>
              LastRow.housing_cost =
                  housing.ammortization + housing.property_tax
                  + housing.maintenance_cost

C7_Witness ==
    /\ calc = "series"
    /\ housing.kind = "Preselling"
    /\ housing.month = 63
    /\ Len(records) = 63
    /\ records[25].housing_cost = 52513870
    /\ records[26].housing_cost = 73519420
    /\ records[49].housing_cost = 73519420
    /\ records[50].housing_cost = 168044390
    /\ records[62].housing_cost = housing.loan_down_payment
    /\ LastRow.housing_cost = SchedulePayment
    /\ SchedulePayment # housing.loan_down_payment

\* C7 as first stated: the tiers at counters 1..24, 25..48 and 49..60, and
\* the schedule payment from month 61 onward.
C7_Original ==
    (InRun /\ housing.kind = "Preselling" /\ Called) =>
        /\ (1 <= LastCounter /\ LastCounter <= 24) =>
              housing.ammortization = 52513870
        /\ (25 <= LastCounter /\ LastCounter <= 48) =>
              housing.ammortization = 73519420
        /\ (49 <= LastCounter /\ LastCounter <= 60) =>
              housing.ammortization = 168044390
        /\ (61 <= LastCounter /\ pc # "raised"
            /\ LastCounter <= 60 + housing.loan_term_months + 1) =>
              housing.ammortization = SchedulePayment

\* C8: in a Preselling run the recorded house_value is 0 in every month before
\* the loan originates at month counter 61 (the row of month 62), and the
\* house value from then on.
C8_NoAssetBeforeOrigination ==
    (InRun /\ housing.kind = "Preselling") =>
        /\ \A i \in 1..Len(records) : i <= 61 => records[i].house_value = 0
        /\ (Len(records) >= 62 /\ pc # "raised") =>
              LastRow.house_value = housing.house_value

\* C9: for a Preselling strategy property tax and maintenance add 0 to the
\* monthly cost at every month counter 0..60, before origination.
C9_NoYearlyCostBeforeOrigination ==
    (InRun /\ housing.kind = "Preselling" /\ Called
     /\ LastCounter <= 60 /\ records # <<>> /\ pc # "raised") =>
        LastRow.housing_cost = housing.ammortization

RECURSIVE C10_PrincipalPaid(_)
C10_PrincipalPaid(rows) ==
    IF rows = <<>> THEN 0 ELSE Head(rows).principal + C10_PrincipalPaid(Tail(rows))

\* the term in months, and the principal in thousandths, of the drawn input
C10_Term == (args.years.n * 12) \div args.years.d
C10_Principal == (args.principal.n * 1000) \div args.principal.d

\* C10: for every principal > 0, annual rate >= 0 and term > 0 the builder
\* returns term rows, months 1..term; in every row payment = interest
\* + principal component; remaining_balance never increases; the principal
\* components sum to the principal and the last remaining_balance is 0 (each
\* within the rounding of the rows: a thousandth a row).
C10_ScheduleWellFormed ==
    (calc = "schedule" /\ pc # "loop") =>
        /\ pc = "returned"
        /\ Len(result.rows) = C10_Term
        /\ \A i \in 1..Len(result.rows) :
              /\ result.rows[i].month = i
              /\ Abs(result.rows[i].monthly_payment - result.rows[i].interest
                     - result.rows[i].principal) <= 1
              /\ result.rows[i].remaining_balance <=
                     (IF i = 1 THEN C10_Principal
                      ELSE result.rows[i - 1].remaining_balance)
        /\ Abs(C10_PrincipalPaid(result.rows) - C10_Principal) <= C10_Term
        /\ Abs(result.rows[Len(result.rows)].remaining_balance) <= 1

\* C11: when annual_rate = 0 (principal >= 0, term > 0) the builder does not
\* fail with a division by zero: it returns term rows whose payment is
\* principal / term and whose interest is 0.
C11_ZeroRateSchedule ==
    (calc = "schedule" /\ args.annual_rate.n = 0 /\ pc # "loop") =>
        /\ pc = "returned"
        /\ error = "none"
        /\ Len(result.rows) = C10_Term
        /\ \A i \in 1..Len(result.rows) :
              /\ result.rows[i].monthly_payment =
                     Round3(QDiv(args.principal, Q(C10_Term, 1)))
              /\ result.rows[i].interest = 0

\* C12: a term <= 0 or a negative principal makes the schedule builder fail
\* before it produces any row, and a Mortgage or Preselling strategy with a
\* term <= 0 or a negative rate fails at construction: no such scenario
\* enters the monthly loop, neither raising inside it nor running to the end.
C12_EagerRejection ==
    /\ (calc = "schedule" /\ pc # "loop"
        /\ (C10_Term <= 0 \/ args.principal.n < 0)) =>
            pc = "raised" /\ result = NoResult
    /\ (InRun /\ is_owned(housing)
        /\ (housing.loan_term_months <= 0 \/ housing.loan_interest_rate.n < 0)) =>
            month = 0 /\ records = <<>> /\ pc = "loop"

\* C13: constructing a RiskAdjusted strategy with a tag outside
\* {conservative, moderate, aggressive} fails at construction (the error the
\* code raises there is KeyError), so no monthly return is ever computed for
\* it; for the three tags the annual rate is scaled by 0.7, 1.0 and 1.3
\* before the monthly conversion: (1 + monthly rate) ^ 12 = 1 + base * scale.
C13_Scale ==
    CASE args.risk_level = "conservative" -> Q(7, 10)
      [] args.risk_level = "moderate" -> Q(1, 1)
      [] args.risk_level = "aggressive" -> Q(13, 10)
C14_RerunReproduces ==
    (InRun /\ pc \in {"again", "returned again", "raised"} /\ result # NoResult) =>
        /\ pc # "raised"
        /\ records = SubSeq(result.rows, 1, month)

\* rent0 after k escalations by pct, each on the rent already escalated
\* (amounts are whole thousandths: rent0 * (1 + pct) ^ k to the thousandth)
RECURSIVE C15_Compound(_, _, _)
C15_Compound(rent0, pct, k) ==
    IF k = 0 THEN rent0
    ELSE C4_RaisedBy(C15_Compound(rent0, pct, k - 1), pct)

C15_RentCompounds ==
    (InRun /\ housing.kind = "Rent" /\ records # <<>>) =>
        /\ housing.rent = C15_Compound(records[1].housing_cost,
                                       args.expense_increase, escalations)
        /\ \A i \in 1..Len(records) :
              /\ records[i].housing_cost =
                     C15_Compound(records[1].housing_cost,
                                  args.expense_increase, (i - 1) \div 12)
              /\ records[i].house_value = 0

\* the iteration a Rent run makes is the one it makes under any other
\* house_value_increase
C15_HouseGrowthIgnored ==
    (InRun /\ housing.kind = "Rent" /\ month' = month + 1) =>
        \A g \in {NoRate, Q(1, 50), Q(1, 2)} :
            (IF calc = "projection"
             THEN projection_month(self, housing,
                                   [args EXCEPT !.house_value_increase = g],
                                   savings, investments, month + 1)
             ELSE series_month(self, housing,
                               [args EXCEPT !.house_value_increase = g],
                               savings, investments, month + 1))
            = [error |-> "none", self |-> self', housing |-> housing',
               savings |-> savings', investments |-> investments',
               row |-> <<records'[Len(records')]>>]

\* C15: in a Rent projection the rent, and so the housing cost, after k
\* annual escalations is rent0 * (1 + expense_increase) ^ k, compounding on
\* the rent already escalated; it is escalated with expense_increase, and
\* house_value_increase has no effect on any record of a Rent run.
C15_RentEscalation == [](C15_RentCompounds) /\ [][C15_HouseGrowthIgnored]_vars

\* a Rent run whose rent has compounded twice
C15_Witness ==
    /\ InRun
    /\ housing.kind = "Rent"
    /\ args.expense_increase.n > 0
    /\ escalations = 2
    /\ Len(records) = 25
    /\ records[1].housing_cost = 10000000
    /\ records[13].housing_cost = 10400000
    /\ records[25].housing_cost = 10816000
    /\ housing.rent = 10816000

\* the rows of a Preselling run that charge the schedule payment
C16_PaymentRows ==
    {i \in 1..Len(records) :
        records[i].housing_cost =
            SchedulePayment + housing.property_tax + housing.maintenance_cost}

C16_LoanPhases ==
    (InRun /\ housing.kind = "Preselling" /\ Called /\ LastCounter >= 61) =>
        /\ LastCounter = 61 =>
              housing.ammortization = housing.loan_down_payment
        /\ (62 <= LastCounter
            /\ LastCounter <= 60 + housing.loan_term_months + 1) =>
              housing.ammortization = SchedulePayment
        /\ LastCounter > 60 + housing.loan_term_months + 1 =>
              /\ housing.ammortization = 0
              /\ C16_PaymentRows =
                     63..(62 + housing.loan_term_months)
              /\ Cardinality(C16_PaymentRows) = housing.loan_term_months

\* a retired loan stays retired
C16_RetiredStep ==
    (InRun /\ housing.kind = "Preselling" /\ Called
     /\ LastCounter > 60 + housing.loan_term_months + 1) =>
        housing'.ammortization = 0

\* C16: for a Preselling strategy with term T > 0 the loan phase charges the
\* loan down payment at month counter 61, the fixed schedule payment at each
\* counter 62..60+T+1 (exactly T payments) and 0 at every counter beyond;
\* once retired it never charges a payment again.
C16_PresellingLoanPhase == [](C16_LoanPhases) /\ [][C16_RetiredStep]_vars

\* a run two months past the last of its T payments
C16_Witness ==
    /\ calc = "series"
    /\ housing.kind = "Preselling"
    /\ housing.loan_term_months = 2
    /\ housing.month = 66
    /\ Len(records) = 66
    /\ records[62].housing_cost =
           housing.loan_down_payment + housing.property_tax
           + housing.maintenance_cost
    /\ C16_PaymentRows = {63, 64}
    /\ SchedulePayment > 0
    /\ records[65].housing_cost = records[66].housing_cost
    /\ housing.ammortization = 0

\* the return on the investment balance a month starts with
C17_ReturnBefore ==
    (investments * self.investment_strategy.monthly_return_rate.n)
    \div self.investment_strategy.monthly_return_rate.d

C17_SurplusStep ==
    (/\ calc = "projection"
     /\ Len(records') = Len(records) + 1
     /\ records'[Len(records')].cashflow >= 0)
    => /\ records'[Len(records')].investment_returns = C17_ReturnBefore
       /\ savings' =
              savings + (records'[Len(records')].cashflow * self'.savings_rate.n)
                        \div self'.savings_rate.d
       /\ investments' =
              (investments + C17_ReturnBefore)
              + (records'[Len(records')].cashflow * self'.investments_rate.n)
                \div self'.investments_rate.d
       /\ records'[Len(records')].cashflow = 0 =>
              savings' = savings /\ investments' = investments + C17_ReturnBefore
       /\ records'[Len(records')].savings = savings'
       /\ records'[Len(records')].investments = investments'

\* C17: in a month of calculate_financial_projection whose budget is >= 0 the
\* investment return is computed on the balance before any allocation of the
\* month; savings grows by budget * savings_rate and investments ends at the
\* balance before + its return + budget * investments_rate; a budget of
\* exactly 0 takes this branch and leaves savings as it was.
C17_SurplusAllocation == [][C17_SurplusStep]_vars

\* a run with a month of budget 0 followed by a month of surplus, both with
\* a return on the investments
C17_Witness ==
    /\ calc = "projection"
    /\ Len(records) = 13
    /\ records[12].cashflow = 0
    /\ records[12].investment_returns > 0
    /\ records[12].savings = records[11].savings
    /\ records[13].cashflow > 0
    /\ records[13].investment_returns > 0
    /\ records[13].savings > records[12].savings
    /\ records[13].investments >
           records[12].investments + records[13].investment_returns

\* the month counter at which the strategy originates its loan
C18_Origin == IF housing.kind = "Mortgage" THEN 0 ELSE 61

C18_ScheduleOnce ==
    (InRun /\ is_owned(housing) /\ Called) =>
        /\ LastCounter < C18_Origin =>
              "ammortization_schedule" \notin housing.defined
        /\ LastCounter >= C18_Origin =>
              /\ "ammortization_schedule" \in housing.defined
              /\ Len(housing.ammortization_schedule) = housing.loan_term_months
              /\ housing.principal =
                     (IF housing.kind = "Mortgage"
                      THEN (IF records = <<>> THEN housing.house_value
                            ELSE records[1].house_value) - housing.down_payment
                      ELSE housing.lump_sum)
              /\ housing.ammortization_schedule =
                     calculate_ammortization_schedule(
                         Q(housing.principal, 1000), housing.loan_interest_rate,
                         Q(housing.loan_term_months, 12))
        /\ (C18_Origin < LastCounter
            /\ LastCounter <= C18_Origin + housing.loan_term_months) =>
              housing.ammortization =
                  housing.ammortization_schedule[1].monthly_payment

C18_CallStep ==
    (InRun /\ is_owned(housing) /\ month' = month + 1) =>
        /\ housing'.month = housing.month + 1
        /\ "ammortization_schedule" \in housing.defined =>
              /\ housing'.ammortization_schedule = housing.ammortization_schedule
              /\ housing'.principal = housing.principal
        /\ (C18_Origin < housing.month - 1
            /\ housing.month <= C18_Origin + housing.loan_term_months) =>
              housing'.ammortization = housing.ammortization

\* C18: over the set_ammortization and increase_house_value calls made on one
\* Mortgage or Preselling instance, each set_ammortization call advances the
\* month counter by exactly 1; the schedule is created exactly once (at
\* counter 0 for Mortgage on house_value - down_payment, at counter 61 for
\* Preselling on lump_sum); and every later amortizing month is charged the
\* same payment, whatever the house value has become.
C18_CounterAndSchedule == [](C18_ScheduleOnce) /\ [][C18_CallStep]_vars

=============================================================================
